---- MODULE Spec2Model ----
(***************************************************************************)
(* The local conversational state store of the voice banking assistant     *)
(* (src/database.py: users, conversation and sessions tables in SQLite)    *)
(* and the orchestration loop that uses it (src/app_og.py: main).          *)
(***************************************************************************)
EXTENDS Integers, Sequences, FiniteSets, TLC

(* ------------------------------ bounds --------------------------------- *)
\* wall-clock values datetime.now() can return: 0 .. MaxClock
MaxClock == 1
\* rows the three tables hold together under Spec
MaxRows == 3
\* rows of the conversation table under SpecLog
MaxLog == 3
\* rows of the sessions table under SpecSession
MaxSessions == 3
\* utterances one run of main handles under SpecMain
MaxTurns == 1

(* ------------------------------ inputs --------------------------------- *)
UserIds == {"u1", "u2"}
Names == {"U1", "U2"}
Languages == {"en", "hi"}
Tones == {"neutral", "calm"}
Roles == {"user", "assistant"}
Messages == {"m1", "m2"}
\* Python's None, passed for an optional argument that is not supplied
None == "<None>"
\* SQL NULL in the session_end column of an open session
NULL == -1
\* values the optional language / tone arguments of update_user_preferences take
OptLanguages == {None, ""} \cup Languages
OptTones == {None, ""} \cup Tones
\* values of the limit argument of get_recent_context
Limits == (0 - 1) .. (MaxLog + 1)
\* a column of a call record that the call does not have
NA == "-"
\* the tables init_db creates
Tables == {"users", "conversation", "sessions"}
\* classify_intent_and_entities(..., max_retries: int = 3)
max_retries == 3
\* a key the model's JSON object does not have
Missing == "<missing>"
\* what one chat completion of the classifier can come back with: the call
\* raises, or the content is plain text, a JSON list, an unbalanced object, or a
\* JSON object (with or without prose around it) with some of the three keys
Unparsed(kind, prose) ==
    [kind |-> kind, prose |-> prose, intent |-> NA, language |-> NA, details |-> NA]
Completions ==
    {Unparsed("raise", FALSE), Unparsed("text", FALSE), Unparsed("broken", FALSE),
     Unparsed("list", FALSE), Unparsed("list", TRUE)}
    \cup [kind : {"object"}, prose : BOOLEAN, intent : {Missing, "check_balance"},
          language : {Missing, "hi"}, details : {Missing, None, "{amount}"}]
\* a collaborator's call that raises an exception
Raises == "<raises>"
\* what the speech-to-text service, langdetect, the two backend endpoints, the
\* translation completion and gTTS / playsound can come back with
Transcriptions == {Raises, "", "exit", "m1"}
Detections == {Raises, "hi", "fr"}
UserData == {Raises, "404", "{accounts}"}
IntentReplies ==
    {[status_code |-> Raises, message |-> NA, user_data |-> NA],
     [status_code |-> "500", message |-> NA, user_data |-> NA],
     [status_code |-> "200", message |-> "m2", user_data |-> Missing],
     [status_code |-> "200", message |-> Missing, user_data |-> Missing],
     [status_code |-> "200", message |-> Missing, user_data |-> "[list]"]}
\* completions that make the classifier succeed at the first attempt
GoodRun ==
    [i \in 1 .. max_retries |-> [kind |-> "object", prose |-> FALSE, intent |-> "check_balance",
                       language |-> "hi", details |-> "{amount}"]]
\* the completions the classifier gets in one turn of main
ClassifierRuns ==
    {<<Unparsed("raise", FALSE), Unparsed("text", FALSE), Unparsed("broken", FALSE)>>,
     <<Unparsed("raise", FALSE),
       [kind |-> "object", prose |-> TRUE, intent |-> "check_balance",
        language |-> "hi", details |-> "{amount}"],
       Unparsed("raise", FALSE)>>,
     <<[kind |-> "object", prose |-> FALSE, intent |-> "check_balance",
        language |-> Missing, details |-> None],
       Unparsed("raise", FALSE), Unparsed("raise", FALSE)>>}
Translations == {Raises, "m2_hi"}
Playbacks == {Raises, "played"}
\* the processes that run main
Procs == {1, 2}
\* config.py values main uses
DEFAULT_LANGUAGE == "en"
SUPPORTED_LANG_CODES_FOR_TTS ==
    {"en", "hi", "bn", "ta", "te", "kn", "ml", "mr", "gu", "pa", "ur"}
MAX_CONTEXT_MESSAGES == 8

VARIABLES
    users,            \* table users: set of rows
    conversation,     \* table conversation: set of rows
    sessions,         \* table sessions: set of rows
    sqlite_sequence,  \* AUTOINCREMENT: largest id ever assigned, per table
    schema,           \* the tables that exist in the database file
    now,              \* what datetime.now() returns
    appended,         \* history: the rows save_message inserted, in call order
    last,             \* the last store call: its arguments and what it returned
    pc,               \* main: where each process is
    user_id,          \* main: user_id of each process
    profile,          \* main: profile of each process (<<>> is None)
    user_text,        \* main: the utterance of the current turn
    context_msgs,     \* main: context_msgs of the current turn
    opened,           \* history: id of the session row the run inserted (0: none)
    turns,            \* main: utterances handled so far
    exit,             \* main: how the run left main
    detected_lang,    \* main: detected_lang of the current turn
    payload,          \* main: the payload sent to the backend in the current turn
    final_message,    \* main: final_message_translated of the current turn
    fault,            \* history: the collaborators that failed in the run's last step
    classify_call     \* the last call of classify_intent_and_entities on its own

storeVars == <<users, conversation, sessions, sqlite_sequence, schema, now, appended,
               last>>
turnVars == <<detected_lang, payload, final_message, classify_call>>
procVars == <<pc, user_id, profile, user_text, context_msgs, opened, turns, exit,
              detected_lang, payload, final_message, fault, classify_call>>
vars == <<users, conversation, sessions, sqlite_sequence, schema, now, appended, last,
          pc, user_id, profile, user_text, context_msgs, opened, turns, exit,
          detected_lang, payload, final_message, fault, classify_call>>

(* --------------------------- pure helpers ------------------------------ *)
Min(a, b) == IF a < b THEN a ELSE b

\* Python truthiness of an optional string argument ("if language:")
Truthy(x) == x # None /\ x # ""

RECURSIVE OrderByIdAsc(_)
\* a variant that scans from the oldest record: ORDER BY id ASC
OrderByIdAsc(rows) ==
    IF rows = {} THEN <<>>
    ELSE LET m == CHOOSE r \in rows : \A s \in rows : r.id <= s.id
         IN  <<m>> \o OrderByIdAsc(rows \ {m})

RECURSIVE OrderByIdDesc(_)
\* ORDER BY id DESC over a set of rows
OrderByIdDesc(rows) ==
    IF rows = {} THEN <<>>
    ELSE LET m == CHOOSE r \in rows : \A s \in rows : s.id <= r.id
         IN  <<m>> \o OrderByIdDesc(rows \ {m})

\* SQLite's LIMIT n: the first n rows; a negative n means no upper bound
SqlLimit(seq, n) ==
    IF n < 0 THEN seq ELSE SubSeq(seq, 1, Min(n, Len(seq)))

\* a variant that leaves out rows.reverse()
ReverseForgotten(seq) == seq

\* list.reverse()
Reverse(seq) == [i \in 1 .. Len(seq) |-> seq[Len(seq) + 1 - i]]

\* a variant without the AUTOINCREMENT sequence: every insert gets the same id
NextIdNoSequence(table) == 1

\* AUTOINCREMENT: one more than the largest id the table ever held
NextId(table) == sqlite_sequence[table] + 1

\* the call record kept in last; rowcount is the number of rows the call's
\* INSERT / UPDATE statements touched
Call(op, u) ==
    [op |-> op, user_id |-> u, name |-> NA, language |-> NA, tone |-> NA,
     role |-> NA, message |-> NA, limit |-> 0, context |-> <<>>, profile |-> <<>>,
     rowcount |-> 0]

\* CREATE TABLE name (...) after DROP TABLE IF EXISTS name: a fresh table each time
create_table_drop_first(sch, name, tbl) == {}

\* CREATE TABLE IF NOT EXISTS name (...): a no-op on a table that exists
create_table_if_not_exists(sch, name, tbl) == IF name \in sch THEN tbl ELSE {}

(* ------------------------- database.py functions ----------------------- *)
\* a variant with INSERT OR REPLACE: the existing row gives way to a new one
create_user_profile_replace(tbl, uid, name, language, tone) ==
    {r \in tbl : r.user_id # uid}
        \cup {[id |-> NextId("users"), user_id |-> uid, name |-> name,
                preferred_language |-> language, voice_tone |-> tone,
                created_at |-> now]}

\* a variant whose user_id column is not UNIQUE: every insert adds a row
create_user_profile_no_unique(tbl, uid, name, language, tone) ==
    tbl \cup {[id |-> NextId("users"), user_id |-> uid, name |-> name,
               preferred_language |-> language, voice_tone |-> tone,
               created_at |-> now]}

\* INSERT OR IGNORE INTO users: the UNIQUE user_id makes a second insert a no-op
create_user_profile(tbl, uid, name, language, tone) ==
    IF \E r \in tbl : r.user_id = uid
    THEN tbl
    ELSE tbl \cup {[id |-> NextId("users"), user_id |-> uid, name |-> name,
                    preferred_language |-> language, voice_tone |-> tone,
                    created_at |-> now]}

\* SELECT name, preferred_language, voice_tone ... fetchone(); <<>> is None
get_user_profile(tbl, uid) ==
    IF \E r \in tbl : r.user_id = uid
    THEN LET r == CHOOSE r \in tbl : r.user_id = uid
         IN  <<[name |-> r.name, language |-> r.preferred_language,
                tone |-> r.voice_tone]>>
    ELSE <<>>

\* a variant that runs both UPDATE statements whatever was supplied
update_user_preferences_unconditional(tbl, uid, language, tone) ==
    {IF r.user_id = uid
     THEN [r EXCEPT !.preferred_language = language, !.voice_tone = tone]
     ELSE r : r \in tbl}

\* the two conditional UPDATE statements
update_user_preferences(tbl, uid, language, tone) ==
    LET t1 == IF Truthy(language)
              THEN {IF r.user_id = uid
                    THEN [r EXCEPT !.preferred_language = language] ELSE r
                    : r \in tbl}
              ELSE tbl
    IN  IF Truthy(tone)
        THEN {IF r.user_id = uid
              THEN [r EXCEPT !.voice_tone = tone] ELSE r : r \in t1}
        ELSE t1

\* INSERT INTO sessions (user_id, session_start): session_end is NULL
start_session(tbl, uid) ==
    tbl \cup {[id |-> NextId("sessions"), user_id |-> uid,
               session_start |-> now, session_end |-> NULL]}

\* a variant that closes only the most recently opened open session of the user
end_session_most_recent(tbl, uid) ==
    LET open == {r \in tbl : r.user_id = uid /\ r.session_end = NULL}
    IN  {IF r \in open /\ (\A o \in open : o.id <= r.id)
         THEN [r EXCEPT !.session_end = now] ELSE r : r \in tbl}

\* a variant whose WHERE clause leaves out the user_id
end_session_any_user(tbl, uid) ==
    {IF r.session_end = NULL
     THEN [r EXCEPT !.session_end = now] ELSE r : r \in tbl}

\* a variant whose WHERE clause leaves out session_end IS NULL
end_session_reclose(tbl, uid) ==
    {IF r.user_id = uid
     THEN [r EXCEPT !.session_end = now] ELSE r : r \in tbl}

\* UPDATE sessions SET session_end = ? WHERE user_id = ? AND session_end IS NULL
end_session(tbl, uid) ==
    {IF r.user_id = uid /\ r.session_end = NULL
     THEN [r EXCEPT !.session_end = now] ELSE r : r \in tbl}

\* the row INSERT INTO conversation adds
MessageRow(uid, role, message) ==
    [id |-> NextId("conversation"), user_id |-> uid, role |-> role,
     message |-> message, timestamp |-> now]

\* a variant with an enforced foreign key: no profile, no message
save_message_foreign_key(tbl, uid, role, message) ==
    IF \E r \in users : r.user_id = uid
    THEN tbl \cup {MessageRow(uid, role, message)}
    ELSE tbl

\* INSERT INTO conversation (user_id, role, message, timestamp)
save_message(tbl, uid, role, message) ==
    tbl \cup {MessageRow(uid, role, message)}

\* the SELECT without its WHERE user_id = ? clause
get_recent_context_all_users(tbl, uid, limit) ==
    LET rows == SqlLimit(OrderByIdDesc(tbl), limit)
        rev  == Reverse(rows)
    IN  [i \in 1 .. Len(rev) |-> [role |-> rev[i].role, content |-> rev[i].message]]

\* SELECT role, message ... WHERE user_id = ? ORDER BY id DESC LIMIT ?,
\* then rows.reverse() and the list of {role, content}
get_recent_context(tbl, uid, limit) ==
    LET rows == SqlLimit(OrderByIdDesc({r \in tbl : r.user_id = uid}), limit)
        rev  == Reverse(rows)
    IN  [i \in 1 .. Len(rev) |-> [role |-> rev[i].role, content |-> rev[i].message]]

(* ------------------------ app_og.py: the classifier -------------------- *)
\* raw[first:last+1] when raw has both an opening and a closing brace
JsonSubstring(raw) ==
    IF raw.kind = "object" THEN [raw EXCEPT !.prose = FALSE] ELSE raw

\* json.loads(raw) returns a value (TRUE) or raises JSONDecodeError (FALSE)
json_loads_ok(raw) == raw.kind \in {"object", "list"} /\ ~ raw.prose

\* parsed.get(key, default)
dict_get(value, default) == IF value = Missing THEN default ELSE value

\* x or {}
OrEmptyDict(x) == IF x \in {None, "{}"} THEN "{}" ELSE x

\* the result when every attempt failed
ClassifyUnknown(detected) ==
    [intent |-> "unknown", language |-> detected, details |-> "{}"]

\* one pass of the try block: ok is FALSE when it raised (the completion call,
\* json.loads, or .get on a parsed value that is not a dict)
ClassifyAttempt(completion, detected) ==
    LET raw == JsonSubstring(completion)
    IN  IF completion.kind = "raise" \/ ~ json_loads_ok(raw) \/ raw.kind # "object"
        THEN [ok |-> FALSE, value |-> ClassifyUnknown(detected)]
        ELSE [ok |-> TRUE,
              value |-> [intent   |-> dict_get(raw.intent, "unknown"),
                         language |-> dict_get(raw.language, detected),
                         details  |-> OrEmptyDict(dict_get(raw.details, "{}"))]]

RECURSIVE classify_loop_no_return(_, _, _, _)
\* the loop with the return inside the try block lost: it keeps requesting
\* completions until range(max_retries) is used up
classify_loop_no_return(completions, detected, retries, attempt) ==
    IF attempt >= retries
    THEN [result |-> ClassifyUnknown(detected), attempts |-> attempt]
    ELSE LET a    == ClassifyAttempt(completions[attempt + 1], detected)
             rest == classify_loop_no_return(completions, detected, retries,
                                             attempt + 1)
         IN  IF a.ok THEN [result |-> a.value, attempts |-> rest.attempts] ELSE rest

RECURSIVE classify_loop(_, _, _, _)
\* for attempt in range(max_retries): try: ... return {...} except: continue
\* and the return after the loop; attempts counts the completions requested
classify_loop(completions, detected, retries, attempt) ==
    IF attempt >= retries
    THEN [result |-> ClassifyUnknown(detected), attempts |-> attempt]
    ELSE LET a == ClassifyAttempt(completions[attempt + 1], detected)
         IN  IF a.ok
             THEN [result |-> a.value, attempts |-> attempt + 1]
             ELSE classify_loop(completions, detected, retries, attempt + 1)

classify_intent_and_entities(completions, detected, retries) ==
    classify_loop(completions, detected, retries, 0)

(* --------------------- app_og.py: the other collaborators -------------- *)
\* a call returns a value or raises: raised is TRUE when the exception leaves
\* the function

\* speak_text: gTTS, its English fallback, save and playsound all sit in try
\* blocks that log and return
speak_text(playback) == [raised |-> FALSE, value |-> None]

\* transcribe_audio_file: the text, or "" when the transcription raised
transcribe_audio_file(transcription) ==
    [raised |-> FALSE, value |-> IF transcription = Raises THEN "" ELSE transcription]

\* detect_language_safe(text, fallback)
detect_language_safe(detection, fallback) ==
    [raised |-> FALSE, value |-> IF detection = Raises THEN fallback ELSE detection]

\* translate_text_via_openai(text, target_lang, source_lang)
translate_text_via_openai(text, target_lang, source_lang, translation) ==
    [raised |-> FALSE,
     value  |-> IF target_lang = "" \/ target_lang = source_lang THEN text
                ELSE IF translation = Raises THEN text
                ELSE translation]

\* fetch_user_data_from_backend: resp.json() on 200, {} otherwise
fetch_user_data_from_backend(data) ==
    [raised |-> FALSE, value |-> IF data \in {Raises, "404"} THEN "{}" ELSE data]

\* send_intent_payload_to_backend without its try block
send_intent_payload_to_backend_unguarded(reply) ==
    IF reply.status_code = Raises
    THEN [raised |-> TRUE,
          value  |-> [status |-> NA, message |-> NA, user_data |-> Missing]]
    ELSE IF reply.status_code = "200"
    THEN [raised |-> FALSE,
          value  |-> [status |-> "ok", message |-> reply.message,
                      user_data |-> reply.user_data]]
    ELSE [raised |-> FALSE,
          value  |-> [status |-> "error", message |-> "Backend error",
                      user_data |-> Missing]]

\* send_intent_payload_to_backend: resp.json() on 200, an error-shaped
\* response on any other status and on an exception
send_intent_payload_to_backend(reply) ==
    IF reply.status_code = Raises
    THEN [raised |-> FALSE,
          value  |-> [status |-> "error", message |-> "Backend unavailable",
                      user_data |-> Missing]]
    ELSE IF reply.status_code = "200"
    THEN [raised |-> FALSE,
          value  |-> [status |-> "ok", message |-> reply.message,
                      user_data |-> reply.user_data]]
    ELSE [raised |-> FALSE,
          value  |-> [status |-> "error", message |-> "Backend error",
                      user_data |-> Missing]]

\* handle_flexible_response prints the response; response["user_data"].items()
\* raises when there is no message and user_data is not a dict
handle_flexible_response(response) ==
    [raised |-> response.message = Missing /\ response.user_data = "[list]",
     value  |-> None]

\* payload before the first turn has built one
NoPayload ==
    [user_id |-> NA, intent |-> NA, language |-> NA, details |-> NA,
     conversation_context |-> <<>>, user_data |-> NA]

(* ------------------------------ the store ------------------------------ *)
Rows == Cardinality(users) + Cardinality(conversation) + Cardinality(sessions)

Init ==
    /\ users = {}
    /\ conversation = {}
    /\ sessions = {}
    /\ sqlite_sequence = [t \in Tables |-> 0]
    /\ schema = Tables
    /\ now = 0
    /\ appended = <<>>
    /\ last = Call("init_db", NA)
    /\ pc = [p \in Procs |-> "begin"]
    /\ user_id = [p \in Procs |-> ""]
    /\ profile = [p \in Procs |-> <<>>]
    /\ user_text = [p \in Procs |-> ""]
    /\ context_msgs = [p \in Procs |-> <<>>]
    /\ opened = [p \in Procs |-> 0]
    /\ turns = [p \in Procs |-> 0]
    /\ exit = [p \in Procs |-> NA]
    /\ detected_lang = [p \in Procs |-> NA]
    /\ payload = [p \in Procs |-> NoPayload]
    /\ final_message = [p \in Procs |-> NA]
    /\ fault = [p \in Procs |-> {}]
    /\ classify_call = [completions |-> <<>>, detected_lang |-> NA, retries |-> 0,
                        result |-> ClassifyUnknown(NA), attempts |-> 0,
                        called |-> FALSE]

\* the wall clock moves on between two calls
Tick ==
    /\ now < MaxClock
    /\ now' = now + 1
    /\ UNCHANGED <<users, conversation, sessions, sqlite_sequence, appended, last, schema>>

CreateUserProfile(u, name, language, tone) ==
    /\ users' = create_user_profile(users, u, name, language, tone)
    /\ sqlite_sequence' =
         IF users' = users THEN sqlite_sequence
         ELSE [sqlite_sequence EXCEPT !["users"] = @ + 1]
    /\ last' = [Call("create_user_profile", u) EXCEPT
                  !.name = name, !.language = language, !.tone = tone,
                  !.rowcount = Cardinality(users' \ users)]
    /\ UNCHANGED <<conversation, sessions, now, appended, schema>>

GetUserProfile(u) ==
    /\ last' = [Call("get_user_profile", u) EXCEPT
                  !.profile = get_user_profile(users, u)]
    /\ UNCHANGED <<users, conversation, sessions, sqlite_sequence, now, appended,
                   schema>>

UpdateUserPreferences(u, language, tone) ==
    /\ users' = update_user_preferences(users, u, language, tone)
    /\ last' = [Call("update_user_preferences", u) EXCEPT
                  !.language = language, !.tone = tone,
                  !.rowcount =
                     IF Truthy(language) \/ Truthy(tone)
                     THEN Cardinality({r \in users : r.user_id = u}) ELSE 0]
    /\ UNCHANGED <<conversation, sessions, sqlite_sequence, now, appended, schema>>

StartSession(u) ==
    /\ sessions' = start_session(sessions, u)
    /\ sqlite_sequence' = [sqlite_sequence EXCEPT !["sessions"] = @ + 1]
    /\ last' = Call("start_session", u)
    /\ UNCHANGED <<users, conversation, now, appended, schema>>

EndSession(u) ==
    /\ sessions' = end_session(sessions, u)
    /\ last' = [Call("end_session", u) EXCEPT
                  !.rowcount = Cardinality({r \in sessions :
                                  r.user_id = u /\ r.session_end = NULL})]
    /\ UNCHANGED <<users, conversation, sqlite_sequence, now, appended, schema>>

SaveMessage(u, role, message) ==
    /\ conversation' = save_message(conversation, u, role, message)
    /\ sqlite_sequence' = [sqlite_sequence EXCEPT !["conversation"] = @ + 1]
    /\ appended' = Append(appended, MessageRow(u, role, message))
    /\ last' = [Call("save_message", u) EXCEPT !.role = role, !.message = message]
    /\ UNCHANGED <<users, sessions, now, schema>>

\* a read that consumes what it returns: the rows read are deleted
GetRecentContextConsuming(u, limit) ==
    /\ last' = [Call("get_recent_context", u) EXCEPT
                  !.limit = limit,
                  !.context = get_recent_context(conversation, u, limit)]
    /\ conversation' =
         {r \in conversation :
             \/ r.user_id # u
             \/ Cardinality({s \in conversation : s.user_id = u /\ s.id >= r.id})
                   > Len(last'.context)}
    /\ UNCHANGED <<users, sessions, sqlite_sequence, now, appended, schema>>

GetRecentContext(u, limit) ==
    /\ last' = [Call("get_recent_context", u) EXCEPT
                  !.limit = limit,
                  !.context = get_recent_context(conversation, u, limit)]
    /\ UNCHANGED <<users, conversation, sessions, sqlite_sequence, now, appended,
                   schema>>

\* init_db(): three CREATE TABLE IF NOT EXISTS statements and a commit
InitDb ==
    /\ users' = create_table_if_not_exists(schema, "users", users)
    /\ conversation' = create_table_if_not_exists(schema, "conversation", conversation)
    /\ sessions' = create_table_if_not_exists(schema, "sessions", sessions)
    /\ schema' = schema \cup Tables
    /\ last' = Call("init_db", NA)
    /\ UNCHANGED <<sqlite_sequence, now, appended>>

\* every operation of the store, called in any order; the clock stands still
\* here and moves in the specifications of the single tables below
Next ==
    \/ InitDb /\ UNCHANGED procVars
    \/ \E u \in UserIds, l \in Languages :
         Rows < MaxRows /\ CreateUserProfile(u, "U1", l, "neutral")
                        /\ UNCHANGED procVars
    \/ \E u \in UserIds : GetUserProfile(u) /\ UNCHANGED procVars
    \/ \E u \in UserIds, l \in {None, "hi"}, t \in {None, "calm"} :
         UpdateUserPreferences(u, l, t) /\ UNCHANGED procVars
    \/ \E u \in UserIds : Rows < MaxRows /\ StartSession(u) /\ UNCHANGED procVars
    \/ \E u \in UserIds : EndSession(u) /\ UNCHANGED procVars
    \/ \E u \in UserIds, r \in Roles :
         Rows < MaxRows /\ SaveMessage(u, r, "m1") /\ UNCHANGED procVars
    \/ \E u \in UserIds, k \in {0 - 1, 0, 1, MAX_CONTEXT_MESSAGES} :
         GetRecentContext(u, k) /\ UNCHANGED procVars

Spec == Init /\ [][Next]_vars

\* the conversation log alone, with room for more messages
NextLog ==
    \/ Tick /\ UNCHANGED procVars
    \/ \E u \in UserIds, r \in Roles :
         Cardinality(conversation) < MaxLog /\ SaveMessage(u, r, "m1")
                                           /\ UNCHANGED procVars
    \/ \E u \in UserIds, k \in Limits : GetRecentContext(u, k) /\ UNCHANGED procVars

SpecLog == Init /\ [][NextLog]_vars

\* the profile store alone, with every argument value
NextProfile ==
    \/ Tick /\ UNCHANGED procVars
    \/ \E u \in UserIds, n \in Names, l \in Languages, t \in Tones :
         CreateUserProfile(u, n, l, t) /\ UNCHANGED procVars
    \/ \E u \in UserIds : GetUserProfile(u) /\ UNCHANGED procVars
    \/ \E u \in UserIds, l \in OptLanguages, t \in OptTones :
         UpdateUserPreferences(u, l, t) /\ UNCHANGED procVars

SpecProfile == Init /\ [][NextProfile]_vars

\* the session tracker alone
NextSession ==
    \/ Tick /\ UNCHANGED procVars
    \/ \E u \in UserIds :
         Cardinality(sessions) < MaxSessions /\ StartSession(u)
                                             /\ UNCHANGED procVars
    \/ \E u \in UserIds : EndSession(u) /\ UNCHANGED procVars

SpecSession == Init /\ [][NextSession]_vars

(* ------------------------------ app_og.py: main ------------------------ *)
\* user_id.split('@')[0] for the user ids used here, none of which holds an '@'
NameOf(u) == u

\* the program counters inside the try block of main
InTry == {"listen", "save_user", "get_context", "backend", "save_assistant", "speak"}

\* user_id = os.getenv('USER_ID') or input(...); an empty one returns at once
MainBegin(p, u) ==
    /\ pc[p] = "begin"
    /\ user_id' = [user_id EXCEPT ![p] = u]
    /\ IF u = ""
       THEN /\ pc' = [pc EXCEPT ![p] = "done"]
            /\ exit' = [exit EXCEPT ![p] = "no_user_id"]
       ELSE /\ pc' = [pc EXCEPT ![p] = "get_profile"]
            /\ exit' = exit
    /\ UNCHANGED <<profile, user_text, context_msgs, opened, turns>>
    /\ fault' = [fault EXCEPT ![p] = {}]
    /\ UNCHANGED turnVars
    /\ UNCHANGED storeVars

\* profile = get_user_profile(user_id); if not profile: ...
MainGetProfile(p) ==
    /\ pc[p] = "get_profile"
    /\ GetUserProfile(user_id[p])
    /\ profile' = [profile EXCEPT ![p] = get_user_profile(users, user_id[p])]
    /\ pc' = [pc EXCEPT ![p] = IF profile'[p] = <<>> THEN "create_profile"
                                ELSE "start_session"]
    /\ UNCHANGED <<user_id, user_text, context_msgs, opened, turns, exit>>
    /\ fault' = [fault EXCEPT ![p] = {}]
    /\ UNCHANGED turnVars

\* create_user_profile(user_id, name=..., language=DEFAULT_LANGUAGE, tone='neutral')
MainCreateProfile(p) ==
    /\ pc[p] = "create_profile"
    /\ CreateUserProfile(user_id[p], NameOf(user_id[p]), DEFAULT_LANGUAGE, "neutral")
    /\ pc' = [pc EXCEPT ![p] = "get_profile_again"]
    /\ UNCHANGED <<user_id, profile, user_text, context_msgs, opened, turns, exit>>
    /\ fault' = [fault EXCEPT ![p] = {}]
    /\ UNCHANGED turnVars

\* profile = get_user_profile(user_id); profile.get(...) raises on None,
\* outside the try block
MainGetProfileAgain(p) ==
    /\ pc[p] = "get_profile_again"
    /\ GetUserProfile(user_id[p])
    /\ profile' = [profile EXCEPT ![p] = get_user_profile(users, user_id[p])]
    /\ IF profile'[p] = <<>>
       THEN /\ pc' = [pc EXCEPT ![p] = "done"]
            /\ exit' = [exit EXCEPT ![p] = "AttributeError"]
       ELSE /\ pc' = [pc EXCEPT ![p] = "start_session"]
            /\ exit' = exit
    /\ UNCHANGED <<user_id, user_text, context_msgs, opened, turns>>
    /\ fault' = [fault EXCEPT ![p] = {}]
    /\ UNCHANGED turnVars

\* start_session(user_id)
MainStartSession(p) ==
    /\ pc[p] = "start_session"
    /\ StartSession(user_id[p])
    /\ opened' = [opened EXCEPT ![p] = NextId("sessions")]
    /\ pc' = [pc EXCEPT ![p] = "greet"]
    /\ UNCHANGED <<user_id, profile, user_text, context_msgs, turns, exit>>
    /\ fault' = [fault EXCEPT ![p] = {}]
    /\ UNCHANGED turnVars

\* speak_text(greeting, ...): it absorbs every Exception and returns
MainGreet(p) ==
    /\ pc[p] = "greet"
    /\ pc' = [pc EXCEPT ![p] = "recognizer"]
    /\ UNCHANGED <<user_id, profile, user_text, context_msgs, opened, turns, exit>>
    /\ fault' = [fault EXCEPT ![p] = {}]
    /\ UNCHANGED turnVars
    /\ UNCHANGED storeVars

\* recognizer = sr.Recognizer()
MainRecognizer(p) ==
    /\ pc[p] = "recognizer"
    /\ pc' = [pc EXCEPT ![p] = "listen"]
    /\ UNCHANGED <<user_id, profile, user_text, context_msgs, opened, turns, exit>>
    /\ fault' = [fault EXCEPT ![p] = {}]
    /\ UNCHANGED turnVars
    /\ UNCHANGED storeVars

\* a KeyboardInterrupt, or an exception of sr.Recognizer(), raised between
\* start_session and the try statement: nothing catches it
MainRaiseBeforeTry(p) ==
    /\ pc[p] \in {"greet", "recognizer"}
    /\ pc' = [pc EXCEPT ![p] = "done"]
    /\ exit' = [exit EXCEPT ![p] = "uncaught"]
    /\ UNCHANGED <<user_id, profile, user_text, context_msgs, opened, turns>>
    /\ fault' = [fault EXCEPT ![p] = {}]
    /\ UNCHANGED turnVars
    /\ UNCHANGED storeVars

\* the exit phrases of main
ExitPhrases == {"exit"}

\* one pass from the top of the loop to the save of the utterance: listen,
\* transcribe; an empty transcription asks to repeat and listens again, an
\* exit phrase says goodbye and breaks, anything else has its language detected
MainListen(p, transcription, detection, playback) ==
    LET t      == transcribe_audio_file(transcription)
        text   == t.value
        spoken == text = "" \/ text \in ExitPhrases
        s      == speak_text(playback)
        preferred_lang == profile[p][1].language
        d      == detect_language_safe(detection, preferred_lang)
        raised == t.raised \/ (spoken /\ s.raised) \/ (~ spoken /\ d.raised)
    IN  /\ pc[p] = "listen"
        /\ turns[p] < MaxTurns \/ text \in ExitPhrases
        /\ user_text' = [user_text EXCEPT ![p] = text]
        /\ fault' = [fault EXCEPT ![p] =
               {c \in {"transcribe"} : transcription = Raises}
               \cup {c \in {"speak"} : spoken /\ playback = Raises}
               \cup {c \in {"detect"} : ~ spoken /\ detection = Raises}]
        /\ IF raised
           THEN /\ pc' = [pc EXCEPT ![p] = "finally"]
                /\ exit' = [exit EXCEPT ![p] = "Exception"]
                /\ UNCHANGED <<turns, detected_lang>>
           ELSE IF text = ""
           THEN /\ pc' = pc
                /\ exit' = exit
                /\ turns' = [turns EXCEPT ![p] = @ + 1]
                /\ UNCHANGED detected_lang
           ELSE IF text \in ExitPhrases
           THEN /\ pc' = [pc EXCEPT ![p] = "finally"]
                /\ exit' = [exit EXCEPT ![p] = "exit_phrase"]
                /\ UNCHANGED <<turns, detected_lang>>
           ELSE /\ pc' = [pc EXCEPT ![p] = "save_user"]
                /\ exit' = exit
                /\ turns' = [turns EXCEPT ![p] = @ + 1]
                /\ detected_lang' = [detected_lang EXCEPT ![p] =
                       IF d.value \notin SUPPORTED_LANG_CODES_FOR_TTS
                       THEN preferred_lang ELSE d.value]
        /\ UNCHANGED <<user_id, profile, context_msgs, opened>>
        /\ UNCHANGED <<payload, final_message, classify_call>>
        /\ UNCHANGED storeVars

\* the two statements swapped: the context is read first, the utterance saved
\* after it
MainSaveUserAfterContext(p) ==
    /\ pc[p] = "save_user"
    /\ context_msgs' = [context_msgs EXCEPT ![p] =
           get_recent_context(conversation, user_id[p], MAX_CONTEXT_MESSAGES)]
    /\ SaveMessage(user_id[p], "user", user_text[p])
    /\ pc' = [pc EXCEPT ![p] = "backend"]
    /\ UNCHANGED <<user_id, profile, user_text, opened, turns, exit>>
    /\ fault' = [fault EXCEPT ![p] = {}]
    /\ UNCHANGED turnVars

\* save_message(user_id, 'user', user_text)
MainSaveUser(p) ==
    /\ pc[p] = "save_user"
    /\ SaveMessage(user_id[p], "user", user_text[p])
    /\ pc' = [pc EXCEPT ![p] = "get_context"]
    /\ UNCHANGED <<user_id, profile, user_text, context_msgs, opened, turns, exit>>
    /\ fault' = [fault EXCEPT ![p] = {}]
    /\ UNCHANGED turnVars

\* context_msgs = get_recent_context(user_id, limit=MAX_CONTEXT_MESSAGES)
MainGetContext(p) ==
    /\ pc[p] = "get_context"
    /\ GetRecentContext(user_id[p], MAX_CONTEXT_MESSAGES)
    /\ context_msgs' = [context_msgs EXCEPT ![p] =
           get_recent_context(conversation, user_id[p], MAX_CONTEXT_MESSAGES)]
    /\ pc' = [pc EXCEPT ![p] = "backend"]
    /\ UNCHANGED <<user_id, profile, user_text, opened, turns, exit>>
    /\ fault' = [fault EXCEPT ![p] = {}]
    /\ UNCHANGED turnVars

\* classify, fetch the user data, build and send the payload, print the
\* response, take its message and translate it
MainBackend(p, completions, data, reply, translation) ==
    LET classification == classify_intent_and_entities(completions, detected_lang[p],
                                                       max_retries)
        user_data == fetch_user_data_from_backend(data)
        sent      == [user_id  |-> user_id[p],
                      intent   |-> classification.result.intent,
                      language |-> classification.result.language,
                      details  |-> classification.result.details,
                      conversation_context |-> context_msgs[p],
                      user_data |-> user_data.value]
        backend_response == send_intent_payload_to_backend(reply)
        handled   == handle_flexible_response(backend_response.value)
        message   == IF backend_response.value.message \in {Missing, None, ""}
                     THEN "Sorry, I could not complete that request right now."
                     ELSE backend_response.value.message
        translate == detected_lang[p] # "" /\ detected_lang[p] # "en"
        translated == translate_text_via_openai(message, detected_lang[p], "en",
                                                translation)
        raised    == user_data.raised \/ backend_response.raised \/ handled.raised
    IN  /\ pc[p] = "backend"
        /\ fault' = [fault EXCEPT ![p] =
               {c \in {"classify"} :
                   \A i \in 1 .. max_retries :
                      ~ ClassifyAttempt(completions[i], detected_lang[p]).ok}
               \cup {c \in {"fetch"} : data \in {Raises, "404"}}
               \cup {c \in {"send"} : reply.status_code # "200"}
               \cup {c \in {"translate"} :
                       ~ raised /\ translate /\ translation = Raises}]
        /\ IF raised
           THEN /\ pc' = [pc EXCEPT ![p] = "finally"]
                /\ exit' = [exit EXCEPT ![p] =
                       IF user_data.raised \/ backend_response.raised
                       THEN "Exception" ELSE "handle_flexible_response"]
                /\ UNCHANGED <<payload, final_message>>
           ELSE /\ pc' = [pc EXCEPT ![p] = "save_assistant"]
                /\ exit' = exit
                /\ payload' = [payload EXCEPT ![p] = sent]
                /\ final_message' = [final_message EXCEPT ![p] =
                       IF translate /\ ~ translated.raised
                       THEN translated.value ELSE message]
        /\ UNCHANGED <<user_id, profile, user_text, context_msgs, opened, turns>>
        /\ UNCHANGED <<detected_lang, classify_call>>
        /\ UNCHANGED storeVars

\* save_message(user_id, 'assistant', final_message_translated)
MainSaveAssistant(p) ==
    /\ pc[p] = "save_assistant"
    /\ SaveMessage(user_id[p], "assistant", final_message[p])
    /\ pc' = [pc EXCEPT ![p] = "speak"]
    /\ UNCHANGED <<user_id, profile, user_text, context_msgs, opened, turns, exit>>
    /\ fault' = [fault EXCEPT ![p] = {}]
    /\ UNCHANGED turnVars

\* speak_text(final_message_translated, lang=detected_lang), then the next
\* iteration
MainSpeak(p, playback) ==
    LET s == speak_text(playback)
    IN  /\ pc[p] = "speak"
        /\ fault' = [fault EXCEPT ![p] = {c \in {"speak"} : playback = Raises}]
        /\ IF s.raised
           THEN /\ pc' = [pc EXCEPT ![p] = "finally"]
                /\ exit' = [exit EXCEPT ![p] = "Exception"]
           ELSE /\ pc' = [pc EXCEPT ![p] = "listen"]
                /\ exit' = exit
        /\ UNCHANGED <<user_id, profile, user_text, context_msgs, opened, turns>>
        /\ UNCHANGED turnVars
        /\ UNCHANGED storeVars

\* except KeyboardInterrupt / except Exception: every raise inside the try block
MainRaiseInTry(p, how) ==
    /\ pc[p] \in InTry
    /\ pc' = [pc EXCEPT ![p] = "finally"]
    /\ exit' = [exit EXCEPT ![p] = how]
    /\ UNCHANGED <<user_id, profile, user_text, context_msgs, opened, turns>>
    /\ fault' = [fault EXCEPT ![p] = {}]
    /\ UNCHANGED turnVars
    /\ UNCHANGED storeVars

\* finally: end_session(user_id)
MainFinally(p) ==
    /\ pc[p] = "finally"
    /\ EndSession(user_id[p])
    /\ pc' = [pc EXCEPT ![p] = "done"]
    /\ UNCHANGED <<user_id, profile, user_text, context_msgs, opened, turns, exit>>
    /\ fault' = [fault EXCEPT ![p] = {}]
    /\ UNCHANGED turnVars

\* one call of classify_intent_and_entities with the completions the service
\* would give to its attempts; the function keeps no state between calls
Classify(completions, detected, retries) ==
    LET c == classify_intent_and_entities(completions, detected, retries)
    IN  /\ ~ classify_call.called
        /\ classify_call' =
              [completions |-> completions, detected_lang |-> detected,
               retries |-> retries, result |-> c.result, attempts |-> c.attempts,
               called |-> TRUE]
        /\ UNCHANGED <<pc, user_id, profile, user_text, context_msgs, opened, turns,
                       exit, detected_lang, payload, final_message, fault>>
        /\ UNCHANGED storeVars

\* the classifier on its own: every run of completions, any retry budget up to
\* the default
NextClassify ==
    /\ ~ classify_call.called
    /\ \E retries \in 0 .. max_retries, detected \in Languages,
          completions \in [1 .. max_retries -> Completions] :
           Classify(completions, detected, retries)

SpecClassify == Init /\ [][NextClassify]_vars

\* the runs of main, interleaved at the store calls
NextMain ==
    \/ \E p \in Procs, u \in UserIds \cup {""} : MainBegin(p, u)
    \/ \E p \in Procs : MainGetProfile(p)
    \/ \E p \in Procs : MainCreateProfile(p)
    \/ \E p \in Procs : MainGetProfileAgain(p)
    \/ \E p \in Procs : MainStartSession(p)
    \/ \E p \in Procs : MainGreet(p)
    \/ \E p \in Procs : MainRecognizer(p)
    \/ \E p \in Procs : MainRaiseBeforeTry(p)
    \/ \E p \in Procs, t \in Transcriptions \ {Raises} :
         MainListen(p, t, "hi", "played")
    \/ \E p \in Procs : MainSaveUser(p)
    \/ \E p \in Procs : MainGetContext(p)
    \/ \E p \in Procs, r \in {r \in IntentReplies : r.message = "m2"} :
         MainBackend(p, GoodRun, "{accounts}", r, "m2_hi")
    \/ \E p \in Procs : MainSaveAssistant(p)
    \/ \E p \in Procs : MainSpeak(p, "played")
    \/ \E p \in Procs, how \in {"KeyboardInterrupt", "Exception"} :
         MainRaiseInTry(p, how)
    \/ \E p \in Procs : MainFinally(p)

SpecMain == Init /\ [][NextMain]_vars

\* no other run of main is under way
OthersIdle(p) == \A q \in Procs \ {p} : pc[q] \in {"begin", "done"}

\* the runs of main one at a time: a run starts only when no other is under way
NextSeq ==
    \/ \E p \in Procs, u \in UserIds \cup {""} : OthersIdle(p) /\ MainBegin(p, u)
    \/ \E p \in Procs : OthersIdle(p) /\ MainGetProfile(p)
    \/ \E p \in Procs : OthersIdle(p) /\ MainCreateProfile(p)
    \/ \E p \in Procs : OthersIdle(p) /\ MainGetProfileAgain(p)
    \/ \E p \in Procs : OthersIdle(p) /\ MainStartSession(p)
    \/ \E p \in Procs : OthersIdle(p) /\ MainGreet(p)
    \/ \E p \in Procs : OthersIdle(p) /\ MainRecognizer(p)
    \/ \E p \in Procs : OthersIdle(p) /\ MainRaiseBeforeTry(p)
    \/ \E p \in Procs, t \in Transcriptions \ {Raises} :
         OthersIdle(p) /\ MainListen(p, t, "hi", "played")
    \/ \E p \in Procs : OthersIdle(p) /\ MainSaveUser(p)
    \/ \E p \in Procs : OthersIdle(p) /\ MainGetContext(p)
    \/ \E p \in Procs, r \in {r \in IntentReplies : r.message = "m2"} :
         OthersIdle(p) /\ MainBackend(p, GoodRun, "{accounts}", r, "m2_hi")
    \/ \E p \in Procs : OthersIdle(p) /\ MainSaveAssistant(p)
    \/ \E p \in Procs : OthersIdle(p) /\ MainSpeak(p, "played")
    \/ \E p \in Procs, how \in {"KeyboardInterrupt", "Exception"} :
         OthersIdle(p) /\ MainRaiseInTry(p, how)
    \/ \E p \in Procs : OthersIdle(p) /\ MainFinally(p)

SpecSeq == Init /\ [][NextSeq]_vars

\* the process of the single run
Actor == CHOOSE p \in Procs : TRUE

\* one run of main alone, with every outcome of every collaborator
NextTurn ==
    \/ \E u \in UserIds \cup {""} : MainBegin(Actor, u)
    \/ MainGetProfile(Actor)
    \/ MainCreateProfile(Actor)
    \/ MainGetProfileAgain(Actor)
    \/ MainStartSession(Actor)
    \/ MainGreet(Actor)
    \/ MainRecognizer(Actor)
    \/ MainRaiseBeforeTry(Actor)
    \/ \E t \in Transcriptions, d \in Detections, s \in Playbacks :
         MainListen(Actor, t, d, s)
    \/ MainSaveUser(Actor)
    \/ MainGetContext(Actor)
    \/ \E c \in ClassifierRuns, d \in UserData, r \in IntentReplies,
          t \in Translations :
         MainBackend(Actor, c, d, r, t)
    \/ MainSaveAssistant(Actor)
    \/ \E s \in Playbacks : MainSpeak(Actor, s)
    \/ \E how \in {"KeyboardInterrupt", "Exception"} : MainRaiseInTry(Actor, how)
    \/ MainFinally(Actor)

SpecTurn == Init /\ [][NextTurn]_vars

(* ------------------------------ the claims ----------------------------- *)
\* what save_message was called with for user u, as {role, content}, in call order
AppendedFor(u) ==
    LET mine == SelectSeq(appended, LAMBDA r : r.user_id = u)
    IN  [i \in 1 .. Len(mine) |-> [role |-> mine[i].role, content |-> mine[i].message]]

\* the last n elements of seq
LastN(seq, n) == SubSeq(seq, Len(seq) - n + 1, Len(seq))

\* the last call was get_recent_context
IsRecent == last.op = "get_recent_context"

\* C1: after N appends for a user, recent(user_id, N) returns exactly those N
\* messages in the order they were appended (oldest first), whatever their
\* timestamps are.
C1_RecentInAppendOrder ==
    (IsRecent /\ last.limit >= 0 /\ last.limit <= Len(AppendedFor(last.user_id)))
        => last.context = LastN(AppendedFor(last.user_id), last.limit)

\* C1 witness: a read of all N >= 2 messages of a user, two of which differ and
\* carry the same timestamp, with another user's message in the log as well.
C1_Witness ==
    /\ IsRecent
    /\ last.limit = Len(AppendedFor(last.user_id))
    /\ last.limit >= 2
    /\ last.context[1] # last.context[2]
    /\ \E r1, r2 \in conversation :
          /\ r1.user_id = last.user_id /\ r2.user_id = last.user_id
          /\ r1.id # r2.id /\ r1.timestamp = r2.timestamp
    /\ \E r \in conversation : r.user_id # last.user_id

\* C2: for a user with M stored messages and a limit >= 1, recent returns
\* exactly min(limit, M) records: the min(limit, M) most recently appended
\* messages of that user, oldest first.
C2_BoundedWindow ==
    (IsRecent /\ last.limit >= 1)
        => LET all == AppendedFor(last.user_id)
               k   == Min(last.limit, Len(all))
           IN  /\ Len(last.context) = k
               /\ Len(last.context) <= last.limit
               /\ last.context = LastN(all, k)

\* C2 witness: a read with 1 <= limit < M that returned limit records, the
\* oldest message of the user not being the first of them.
C2_Witness ==
    /\ IsRecent
    /\ last.limit >= 2
    /\ last.limit < Len(AppendedFor(last.user_id))
    /\ Len(last.context) = last.limit
    /\ AppendedFor(last.user_id)[1] # last.context[1]

\* C3: recent(user_id, limit) with limit <= 0, zero or negative, returns an
\* empty sequence whatever the user has stored.
C3_NonPositiveLimitEmpty ==
    (IsRecent /\ last.limit <= 0) => last.context = <<>>

\* a step that is a call of the store operation op (the clock stands still
\* during a call, and every call writes last)
CallOf(op) == last'.op = op /\ now' = now

\* the open sessions of user u
OpenSessions(tbl, u) == {r \in tbl : r.user_id = u /\ r.session_end = NULL}

C6_CreateIdempotent ==
    /\ [](\A u \in UserIds : Cardinality({r \in users : r.user_id = u}) <= 1)
    /\ [][(CallOf("create_user_profile")
            /\ \E r \in users : r.user_id = last'.user_id)
           => users' = users]_vars

\* C6 witness: a second create, with another name, language and tone and at a
\* later time, after which the one stored row still has the first values.
C6_Witness ==
    /\ last.op = "create_user_profile"
    /\ last.rowcount = 0
    /\ \E r \in users :
          /\ r.user_id = last.user_id
          /\ r.name # last.name
          /\ r.preferred_language # last.language
          /\ r.voice_tone # last.tone
          /\ r.created_at # now

\* the row of user u after an update that supplies what Supplied says
UpdatedRow(r, language, tone, Supplied(_)) ==
    [r EXCEPT !.preferred_language = IF Supplied(language) THEN language ELSE @,
              !.voice_tone = IF Supplied(tone) THEN tone ELSE @]

\* C8 as stated: update_preferences keeps a field that is not supplied (None),
\* gives a supplied field its new value, never changes name and created_at and
\* leaves the profiles of all other users unchanged.
C8_PartialUpdate ==
    [][CallOf("update_user_preferences") =>
        users' = {IF r.user_id = last'.user_id
                  THEN UpdatedRow(r, last'.language, last'.tone, LAMBDA x : x # None)
                  ELSE r : r \in users}]_vars

\* C8 amended: a field that is not supplied, or is supplied as the empty string,
\* keeps its stored value; a field supplied as a non-empty string takes the new
\* value; name and created_at never change and the profiles of all other users
\* are unchanged.
C8_PartialUpdateNonEmpty ==
    [][CallOf("update_user_preferences") =>
        users' = {IF r.user_id = last'.user_id
                  THEN UpdatedRow(r, last'.language, last'.tone, Truthy)
                  ELSE r : r \in users}]_vars

\* C8 witness: an update of an existing profile that supplied the tone only,
\* with the profile of another user stored as well.
C8_Witness ==
    /\ last.op = "update_user_preferences"
    /\ last.language = None
    /\ Truthy(last.tone)
    /\ \E r \in users : /\ r.user_id = last.user_id
                         /\ r.voice_tone = last.tone
                         /\ r.preferred_language = "hi"
    /\ \E r \in users : r.user_id # last.user_id

\* C9: update_preferences on a user_id without a profile and close_session on a
\* user_id without an open session leave the three tables unchanged, and
\* get_profile on a user_id without a profile returns the absent value.
C9_AbsentIsNoOp ==
    /\ []((last.op = "get_user_profile"
            /\ ~ \E r \in users : r.user_id = last.user_id)
           => last.profile = <<>>)
    /\ [][((CallOf("update_user_preferences")
             /\ ~ \E r \in users : r.user_id = last'.user_id)
            \/ (CallOf("end_session")
                /\ OpenSessions(sessions, last'.user_id) = {}))
           => UNCHANGED <<users, conversation, sessions, sqlite_sequence>>]_vars

\* C9 witness: a close for a user without an open session while another user
\* has a profile and an open session.
C9_Witness ==
    /\ last.op = "end_session"
    /\ last.rowcount = 0
    /\ \E r \in users : r.user_id # last.user_id
    /\ \E r \in sessions : r.user_id # last.user_id /\ r.session_end = NULL

\* C10: the conversation log is append-only: every message once appended is
\* still there with its id, user_id, role and text, the log holds nothing else,
\* and every append got an id greater than all ids assigned before.
C10_AppendOnly ==
    /\ \A i \in 1 .. Len(appended) : appended[i] \in conversation
    /\ Cardinality(conversation) = Len(appended)
    /\ \A i, j \in 1 .. Len(appended) : i < j => appended[i].id < appended[j].id

\* C10 witness: two appends, followed by a call of another store operation that
\* changes the store.
C10_Witness ==
    /\ Len(appended) >= 2
    /\ last.op \in {"create_user_profile", "update_user_preferences",
                     "start_session", "end_session"}
    /\ last.rowcount >= 1 \/ last.op = "start_session"

\* C5 as stated: once a run of main has opened its session, every way of leaving
\* main closes it: when the run is over, the session row it inserted has a
\* non-null session_end.
C5_SessionClosedOnEveryExit ==
    \A p \in Procs :
        (pc[p] = "done" /\ opened[p] # 0)
            => \E r \in sessions : r.id = opened[p] /\ r.session_end # NULL

\* the program counters main reaches only with a resolved profile
AfterResolve ==
    {"start_session", "greet", "recognizer", "finally"} \cup InTry

\* C7: when several processes run get_profile, create-if-absent, get_profile for
\* the same user_id in any interleaving, the users table never holds more than
\* one row for the user_id, no process fails on an absent profile, and the last
\* get_profile of every process returns a profile.
C7_ConcurrentResolveOrCreate ==
    /\ \A u \in UserIds : Cardinality({r \in users : r.user_id = u}) <= 1
    /\ \A p \in Procs :
          /\ exit[p] # "AttributeError"
          /\ pc[p] = "get_profile_again"
                => Cardinality({r \in users : r.user_id = user_id[p]}) = 1
          /\ (pc[p] \in AfterResolve \/ opened[p] # 0)
                => /\ profile[p] # <<>>
                   /\ Cardinality({r \in users : r.user_id = user_id[p]}) = 1

\* C7 witness: two processes of one user both found no profile; one created it
\* and read it back, and the insert of the other has just been ignored.
C7_Witness ==
    /\ last.op = "create_user_profile"
    /\ last.rowcount = 0
    /\ \E p, q \in Procs :
          /\ p # q
          /\ user_id[p] = last.user_id /\ user_id[q] = last.user_id
          /\ pc[p] = "get_profile_again"
          /\ pc[q] = "start_session" /\ profile[q] # <<>>

\* C11: append adds exactly one record, with the user_id, role and message it
\* was given, whether the user has no, one or several open sessions and whether
\* or not the user_id has a profile, and it leaves the users and sessions tables
\* unchanged.
C11_AppendIndependent ==
    [][CallOf("save_message") =>
        /\ conversation \subseteq conversation'
        /\ Cardinality(conversation') = Cardinality(conversation) + 1
        /\ \A r \in conversation' \ conversation :
              /\ r.user_id = last'.user_id
              /\ r.role = last'.role
              /\ r.message = last'.message
        /\ UNCHANGED <<users, sessions>>]_vars

\* C11 witness: an append for a user_id that has no profile and two open
\* sessions.
C11_Witness ==
    /\ last.op = "save_message"
    /\ ~ \E r \in users : r.user_id = last.user_id
    /\ Cardinality(OpenSessions(sessions, last.user_id)) >= 2
    /\ \E r \in conversation : r.user_id = last.user_id

\* C12 as stated: when the runs of main for a user are executed one at a time,
\* in every reachable state at most one session row of a user_id has
\* session_end = null.
C12_AtMostOneOpenSession ==
    \A u \in UserIds : Cardinality(OpenSessions(sessions, u)) <= 1

(* ------------------------------- C13 ----------------------------------- *)
\* C13: init_db leaves every existing row of users, conversation and sessions
\* (and the ids they were given) unchanged, and a second init_db right after
\* the first changes nothing either: calling it twice is calling it once.
C13_InitDbIdempotent ==
    [][CallOf("init_db") =>
        /\ UNCHANGED <<users, conversation, sessions, sqlite_sequence>>
        /\ schema' = Tables
        /\ \A t \in Tables, tbl \in {users', conversation', sessions'} :
              create_table_if_not_exists(schema', t, tbl) = tbl]_vars

\* init_db was called on a store that holds a user, a message and a session
C13_Witness ==
    /\ last.op = "init_db"
    /\ users # {} /\ conversation # {} /\ sessions # {}

(* ------------------------------- C14 ----------------------------------- *)
\* the attempts of a call that do not raise: a JSON object, prose or not
Succeeds(completion) == completion.kind = "object"

\* C14: a call of the classifier returns a record with exactly the fields
\* intent, language and details after at most max_retries attempts; when some
\* attempt within the budget succeeds, it made exactly the attempts up to the
\* first such one and returns what that completion holds (absent keys
\* defaulted); when none succeeds it returns intent "unknown", the detected
\* language and empty details.
C14_ClassifierTerminates ==
    classify_call.called =>
        LET c     == classify_call
            good  == {i \in 1 .. c.retries : Succeeds(c.completions[i])}
            first == CHOOSE i \in good : \A j \in good : i <= j
            obj   == c.completions[first]
        IN  /\ DOMAIN c.result = {"intent", "language", "details"}
            /\ c.attempts <= c.retries
            /\ c.retries <= max_retries
            /\ IF good = {}
               THEN /\ c.attempts = c.retries
                    /\ c.result = [intent |-> "unknown", language |-> c.detected_lang,
                                   details |-> "{}"]
               ELSE /\ c.attempts = first
                    /\ c.result.intent =
                          IF obj.intent = Missing THEN "unknown" ELSE obj.intent
                    /\ c.result.language =
                          IF obj.language = Missing THEN c.detected_lang
                          ELSE obj.language
                    /\ c.result.details =
                          IF obj.details \in {Missing, None} THEN "{}"
                          ELSE obj.details

\* the first attempt raised, the second gave a JSON object in prose, and the
\* third would have given another object: two attempts were made
C14_Witness ==
    /\ classify_call.called
    /\ classify_call.retries = max_retries
    /\ classify_call.completions[1].kind = "raise"
    /\ Succeeds(classify_call.completions[2]) /\ classify_call.completions[2].prose
    /\ Succeeds(classify_call.completions[3])
    /\ classify_call.completions[3] # classify_call.completions[2]
    /\ classify_call.attempts = 2

(* ------------------------------- C15 ----------------------------------- *)
\* a step of the run of p
StepOf(p) == pc'[p] # pc[p] \/ turns'[p] # turns[p]

\* C15: a step of a turn in which a collaborator failed (transcription,
\* language detection, classification, user-data fetch, backend call,
\* translation, speech) carries on with the degraded result: the run stays
\* inside the loop at the position the same step reaches without the failure
\* (listening again after an empty transcription or after the reply was
\* spoken, saving the utterance or the reply otherwise), it leaves main only
\* when the utterance was an exit phrase, and the session the run opened is
\* still open.  A response that makes handle_flexible_response raise is not
\* a failure of a collaborator.
C15_FailuresAbsorbed ==
    [][\A p \in Procs :
        (StepOf(p) /\ fault'[p] # {} /\ exit'[p] # "handle_flexible_response") =>
            /\ sessions' = sessions
            /\ \E r \in sessions' : r.id = opened[p] /\ r.session_end = NULL
            /\ "transcribe" \in fault'[p] => user_text'[p] = ""
            /\ "detect" \in fault'[p] =>
                  detected_lang'[p] = profile[p][1].language
            /\ "classify" \in fault'[p] =>
                  /\ payload'[p].intent = "unknown"
                  /\ payload'[p].details = "{}"
            /\ "fetch" \in fault'[p] => payload'[p].user_data = "{}"
            /\ "send" \in fault'[p] =>
                  final_message'[p] \in
                     {"Backend unavailable", "Backend error", "m2_hi"}
            /\ "translate" \in fault'[p] =>
                  final_message'[p] \notin {"m2_hi", NA, Missing, None, ""}
            /\ IF pc[p] = "listen" /\ user_text'[p] \in ExitPhrases
               THEN pc'[p] = "finally" /\ exit'[p] = "exit_phrase"
               ELSE /\ exit'[p] = exit[p]
                    /\ pc[p] = "listen" =>
                          pc'[p] = IF user_text'[p] = "" THEN "listen"
                                   ELSE "save_user"
                    /\ pc[p] = "backend" => pc'[p] = "save_assistant"
                    /\ pc[p] = "speak" => pc'[p] = "listen"
                    /\ pc'[p] \in InTry]_vars

\* classification, user-data fetch, backend call and translation all failed
\* in one turn, and the run is about to save the reply
C15_Witness ==
    \E p \in Procs :
        /\ fault[p] = {"classify", "fetch", "send", "translate"}
        /\ pc[p] = "save_assistant"
        /\ final_message[p] = "Backend unavailable"
        /\ \E r \in sessions : r.id = opened[p] /\ r.session_end = NULL

(* ------------------------------- C16 ----------------------------------- *)
\* what get_recent_context(u, MAX_CONTEXT_MESSAGES) returns for the log seq
Window(seq) == LastN(seq, Min(MAX_CONTEXT_MESSAGES, Len(seq)))

\* seq without its last element
Front(seq) == SubSeq(seq, 1, Len(seq) - 1)

\* C16 (state part): with one run at a time, once the context is read it ends
\* with the utterance of the turn; the conversation_context of the payload is
\* the window of the user's log as it was after the utterance and before the
\* reply was appended; and when the reply is spoken the user's log ends with the
\* utterance followed by the reply.
C16_Order ==
    \A p \in Procs :
        LET log  == AppendedFor(user_id[p])
            mine == [role |-> "user", content |-> user_text[p]]
            reply == [role |-> "assistant", content |-> final_message[p]]
        IN  /\ pc[p] = "backend" =>
                 /\ context_msgs[p] = Window(log)
                 /\ Len(context_msgs[p]) >= 1
                 /\ context_msgs[p][Len(context_msgs[p])] = mine
            /\ pc[p] = "save_assistant" =>
                 /\ payload[p].conversation_context = Window(log)
                 /\ log[Len(log)] = mine
            /\ pc[p] = "speak" =>
                 /\ Len(log) >= 2
                 /\ log[Len(log)] = reply
                 /\ log[Len(log) - 1] = mine
                 /\ payload[p].conversation_context = Window(Front(log))
                 /\ payload[p].conversation_context[
                       Len(payload[p].conversation_context)] = mine

\* C16 (step part): in a turn, saving the utterance appends exactly one
\* 'user' record, saving the reply exactly one 'assistant' record, and reading
\* the context, calling the backend and speaking append nothing.
C16_TurnOrder ==
    [][\A p \in Procs :
        (StepOf(p) /\ pc[p] \in InTry /\ pc'[p] \in InTry) =>
            /\ pc[p] = "save_user" =>
                  /\ pc'[p] = "get_context"
                  /\ appended' = Append(appended, MessageRow(user_id[p], "user",
                                                              user_text[p]))
            /\ pc[p] = "get_context" => pc'[p] = "backend"
            /\ pc[p] = "backend" => pc'[p] = "save_assistant"
            /\ pc[p] = "save_assistant" =>
                  /\ pc'[p] = "speak"
                  /\ appended' = Append(appended, MessageRow(user_id[p], "assistant",
                                                              final_message[p]))
            /\ pc[p] \notin {"save_user", "save_assistant"} =>
                  appended' = appended /\ conversation' = conversation
            /\ C16_Order']_vars

\* the reply of a second turn of the same user is being spoken: the context
\* sent held the first turn's utterance and reply and the second utterance
C16_Witness ==
    \E p \in Procs :
        /\ pc[p] = "speak"
        /\ Len(payload[p].conversation_context) = 3
        /\ payload[p].conversation_context[2].role = "assistant"
        /\ Len(AppendedFor(user_id[p])) = 4

(* ------------------------------- C17 ----------------------------------- *)
\* C17: get_recent_context and get_user_profile change no table; what the call
\* returned is what the same call returns on the store it leaves behind, and a
\* read that follows a read of the same kind with the same arguments returns
\* the same result.
C17_ReadsArePure ==
    [][/\ (CallOf("get_recent_context") \/ CallOf("get_user_profile")) =>
            UNCHANGED <<users, conversation, sessions, sqlite_sequence, schema>>
       /\ CallOf("get_recent_context") =>
            /\ last'.context =
                  get_recent_context(conversation', last'.user_id, last'.limit)
            /\ (last.op = "get_recent_context" /\ last.user_id = last'.user_id
                   /\ last.limit = last'.limit) => last'.context = last.context
       /\ CallOf("get_user_profile") =>
            /\ last'.profile = get_user_profile(users', last'.user_id)
            /\ (last.op = "get_user_profile" /\ last.user_id = last'.user_id)
                   => last'.profile = last.profile]_vars

\* a read of a user's context returned messages while the store also holds a
\* profile and an open session
C17_Witness ==
    /\ last.op = "get_recent_context"
    /\ Len(last.context) >= 1
    /\ users # {}
    /\ \E r \in sessions : r.session_end = NULL

(* ------------------------------- C18 ----------------------------------- *)
\* C18: whatever the interleaving of the users' appends, session opens and
\* session closes, get_recent_context(u, limit) returns a tail of the messages
\* appended for u, in u's append order, which for a limit >= 0 has
\* min(limit, number of u's messages) elements however many messages other
\* users have; and end_session(u) leaves every session row of every other
\* user as it is.
C18_PerUserIsolation ==
    [][/\ CallOf("get_recent_context") =>
            LET mine == AppendedFor(last'.user_id)
                n    == Len(last'.context)
            IN  /\ n <= Len(mine)
                /\ last'.context = LastN(mine, n)
                /\ last'.limit >= 0 => n = Min(last'.limit, Len(mine))
       /\ CallOf("end_session") =>
            {r \in sessions' : r.user_id # last'.user_id}
               = {r \in sessions : r.user_id # last'.user_id}]_vars

\* a read of the one most recent message of a user who has a message, while
\* the newest message of the log belongs to another user who also has an open
\* session
C18_Witness ==
    /\ last.op = "get_recent_context"
    /\ last.limit = 1
    /\ Len(last.context) = 1
    /\ \E r \in conversation :
          /\ r.user_id # last.user_id
          /\ \A s \in conversation : s.id <= r.id
          /\ OpenSessions(sessions, r.user_id) # {}

(* ------------------------------- C19 ----------------------------------- *)
\* C19: a session row that has a session_end keeps its session_start and its
\* session_end through every later start_session, end_session and tick of the
\* clock; a row that is still open keeps its session_start; no row is ever
\* removed; and every row has a session_start from its insertion on.
C19_ClosedStaysClosed ==
    [][/\ \A r \in sessions : r.session_end # NULL => r \in sessions'
       /\ \A r \in sessions : \E s \in sessions' :
             /\ s.id = r.id /\ s.user_id = r.user_id
             /\ s.session_start = r.session_start
       /\ \A s \in sessions' : s.session_start \in 0 .. MaxClock]_vars

\* an end_session closed a session of a user at a later time than an earlier
\* session of the same user was closed, and the earlier end is still there
C19_Witness ==
    /\ last.op = "end_session"
    /\ last.rowcount >= 1
    /\ \E r1, r2 \in sessions :
          /\ r1.user_id = last.user_id /\ r2.user_id = last.user_id
          /\ r1.session_end # NULL /\ r2.session_end = now
          /\ r1.session_end < r2.session_end
          /\ r2.session_start >= r1.session_end

====
